---- MODULE Spec2Model ----
(***************************************************************************)
(* pykasm.threads.StoppableThread: a thread with a stop event.             *)
(*                                                                         *)
(* The state is the stop events (threading.Event: a flag, the lock of its  *)
(* condition and the condition's waiters), the workers' stop_event         *)
(* attribute, and, for each calling thread, the call it is in.  Worker     *)
(* methods are split where another thread can observe or change the event  *)
(* between two of their steps:                                             *)
(*   stop()     is_set()  |  set(): flag := True  |  notify_all, return    *)
(*   sleep(i)   wait(): check the flag under the lock, enqueue a waiter    *)
(*              |  blocked in waiter.acquire(True, i)  |  re-acquire the   *)
(*              lock, return                                               *)
(*   stopped(), running()   one read of the flag                           *)
(* A call's invocation is one step with its first access to the event.     *)
(* threading.Event.wait / set / is_set are CPython's (Lib/threading.py):   *)
(*   set:   with cond: flag = True; cond.notify_all()                      *)
(*   wait:  with cond: signaled = flag                                     *)
(*                     if not signaled: signaled = cond.wait(timeout)      *)
(*                     return signaled                                     *)
(*   Condition.wait: append a locked waiter lock, release the lock,        *)
(*          gotit = waiter.acquire(True, timeout) if timeout > 0           *)
(*                  else waiter.acquire(False);                            *)
(*          re-acquire the lock; if not gotit: remove the waiter           *)
(*   is_set: return flag        (no lock)                                  *)
(***************************************************************************)
EXTENDS Integers, FiniteSets

\* Bounds of the model: the threads that call the workers' methods, and the
\* longest sleep() interval, in units of time.
NumThreads == 2
MaxInterval == 1

Threads == 1..NumThreads
\* Two StoppableThread objects: enough for one to share the other's stop event
\* or to own its own.
Workers == {1, 2}
\* Event 0 is a threading.Event() made outside any worker (to be injected);
\* event w is the one worker w's constructor makes when given none.
ExternalEvent == 0
Events == {ExternalEvent} \cup Workers
NoEvent == -1
NoThread == 0
NoWorker == 0
Intervals == 0..MaxInterval

VARIABLES
    stop_event,  \* worker -> its self.stop_event, NoEvent before __init__
    given,       \* worker -> the stop_event argument of its __init__ (NoEvent: None)
    flag,        \* event -> Event._flag
    cond,        \* event -> the thread holding the lock of Event._cond
    waiters,     \* event -> threads whose waiter lock is in _cond._waiters
    pc,          \* thread -> where it is in its call
    self,        \* thread -> the worker that call is on
    remaining,   \* thread -> time left of its waiter.acquire(True, interval)
    gotit,       \* thread -> Condition.wait's gotit
    after,       \* thread -> its call was invoked after a stop() on its event had
                 \*   returned normally, or was blocked in wait() when one did
    stopsOK,     \* event -> stop() calls on it that returned normally (up to 2)
    last,        \* the call that returned in the last step, if one did
    preset,      \* the external event was set by its maker, before any worker had it
    life,        \* worker -> "created", "running" (started) or "terminated"
    runs,        \* thread -> the worker whose run() body it is executing
    late         \* thread -> its body was started after a stop() on the worker's
                 \*   event had returned normally

vars == <<stop_event, given, flag, cond, waiters, pc, self, remaining, gotit,
          after, stopsOK, last, preset, life, runs, late>>

\* What a call gave: the bool of stopped(), running() or sleep(), the None of a
\* stop() that returned, the RuntimeError of one that raised.
Results == {"True", "False", "None", "RuntimeError"}
Bool(b) == IF b THEN "True" ELSE "False"

\* last: the method, the worker, the result, the thread's `after`, and for a
\* sleep() how much of its interval had not yet passed.
NoReturn == [op |-> "none", w |-> NoWorker, ret |-> "None", after |-> FALSE, left |-> 0]
Returns(o, w, r, a, l) == [op |-> o, w |-> w, ret |-> r, after |-> a, left |-> l]

\* Event.is_set
is_set(e) == flag[e]

\* A stopped() with its answer negated.
stopped_negated(w) == ~is_set(stop_event[w])

\* StoppableThread.stopped
stopped(w) == is_set(stop_event[w])

\* A running() that forgets the negation.
running_unnegated(w) == stopped(w)

\* StoppableThread.running
running(w) == ~stopped(w)

Constructed(w) == stop_event[w] # NoEvent
Ev(t) == stop_event[self[t]]

\* A stop() on event e, through any worker, has returned normally.
StopDone(e) == stopsOK[e] > 0

TypeOK ==
    /\ stop_event \in [Workers -> Events \cup {NoEvent}]
    /\ given \in [Workers -> Events \cup {NoEvent}]
    /\ flag \in [Events -> BOOLEAN]
    /\ cond \in [Events -> Threads \cup {NoThread}]
    /\ waiters \in [Events -> SUBSET Threads]
    /\ pc \in [Threads -> {"idle", "stop_set", "stop_notify", "sleep_wait", "sleep_exit",
                           "body_check", "body_sleep", "body_busy"}]
    /\ self \in [Threads -> Workers \cup {NoWorker}]
    /\ remaining \in [Threads -> Intervals]
    /\ gotit \in [Threads -> BOOLEAN]
    /\ after \in [Threads -> BOOLEAN]
    /\ stopsOK \in [Events -> 0..2]
    /\ last \in [op : {"none", "stopped", "running", "stop", "sleep"},
                 w : Workers \cup {NoWorker}, ret : Results, after : BOOLEAN,
                 left : Intervals]
    /\ preset \in BOOLEAN
    /\ life \in [Workers -> {"created", "running", "terminated"}]
    /\ runs \in [Threads -> Workers \cup {NoWorker}]
    /\ late \in [Threads -> BOOLEAN]

Init ==
    /\ stop_event = [w \in Workers |-> NoEvent]
    /\ given = [w \in Workers |-> NoEvent]
    /\ flag = [e \in Events |-> FALSE]
    /\ cond = [e \in Events |-> NoThread]
    /\ waiters = [e \in Events |-> {}]
    /\ pc = [t \in Threads |-> "idle"]
    /\ self = [t \in Threads |-> NoWorker]
    /\ remaining = [t \in Threads |-> 0]
    /\ gotit = [t \in Threads |-> FALSE]
    /\ after = [t \in Threads |-> FALSE]
    /\ stopsOK = [e \in Events |-> 0]
    /\ last = NoReturn
    /\ preset = FALSE
    /\ life = [w \in Workers |-> "created"]
    /\ runs = [t \in Threads |-> NoWorker]
    /\ late = [t \in Threads |-> FALSE]

\* An __init__ whose default event is made once and shared by every worker
\* constructed without one (a default argument stop_event=threading.Event()).
NewStopEventShared(w, arg) == IF arg # NoEvent THEN arg ELSE ExternalEvent

\* An __init__ that ignores the event passed in and always makes a new one.
NewStopEventOwn(w, arg) == w

\* StoppableThread.__init__: self.stop_event is the event passed in, or a new
\* threading.Event() (event w: flag unset, no waiters) when none is.
NewStopEvent(w, arg) == IF arg # NoEvent THEN arg ELSE w

\* Events a caller can pass in: the external one, or a constructed worker's
\* stop_event attribute.
Injectable ==
    {ExternalEvent} \cup {stop_event[v] : v \in {u \in Workers : Constructed(u)}}

\* A constructor that clears the event it is given.
ConstructClears(w, arg) ==
    /\ ~Constructed(w)
    /\ \A v \in Workers : v < w => Constructed(v)
    /\ arg \in Injectable \cup {NoEvent}
    /\ stop_event' = [stop_event EXCEPT ![w] = NewStopEvent(w, arg)]
    /\ given' = [given EXCEPT ![w] = arg]
    /\ flag' = [flag EXCEPT ![NewStopEvent(w, arg)] = FALSE]
    /\ last' = NoReturn
    /\ UNCHANGED <<cond, waiters, pc, self, remaining, gotit, after, stopsOK,
                   preset, life, runs, late>>

Construct(w, arg) ==
    /\ ~Constructed(w)
    /\ \A v \in Workers : v < w => Constructed(v)
    /\ arg \in Injectable \cup {NoEvent}
    /\ stop_event' = [stop_event EXCEPT ![w] = NewStopEvent(w, arg)]
    /\ given' = [given EXCEPT ![w] = arg]
    /\ last' = NoReturn
    /\ UNCHANGED <<flag, cond, waiters, pc, self, remaining, gotit, after, stopsOK,
                   preset, life, runs, late>>

\* The maker of the external event sets it directly (event.set(), no worker
\* involved) while no worker has it yet: nobody can be waiting on it.
ExternalSet ==
    /\ \A w \in Workers : stop_event[w] # ExternalEvent
    /\ ~flag[ExternalEvent]
    /\ flag' = [flag EXCEPT ![ExternalEvent] = TRUE]
    /\ preset' = TRUE
    /\ last' = NoReturn
    /\ UNCHANGED <<stop_event, given, cond, waiters, pc, self, remaining, gotit, after,
                   stopsOK, life, runs, late>>

\* Thread t can invoke a method of worker w.
CanCall(t, w) == pc[t] = "idle" /\ Constructed(w)

\* A body that goes from one sleep() to the next without testing running().
HomeSleep(t) == IF runs[t] # NoWorker THEN "body_sleep" ELSE "idle"

\* Where a thread is between two calls: in a run() body, back at its loop test.
Home(t) == IF runs[t] # NoWorker THEN "body_check" ELSE "idle"

\* Thread t can call sleep() on worker w: from outside, or as w's run() body.
CanSleep(t, w) == CanCall(t, w) \/ (pc[t] = "body_sleep" /\ runs[t] = w)

\* Thread t's call is over.
Idle(t) ==
    /\ pc' = [pc EXCEPT ![t] = Home(t)]
    /\ self' = [self EXCEPT ![t] = NoWorker]
    /\ after' = [after EXCEPT ![t] = FALSE]

\* stopped(): return self.stop_event.is_set()
Stopped(t, w) ==
    /\ CanCall(t, w)
    /\ last' = Returns("stopped", w, Bool(stopped(w)), StopDone(stop_event[w]), 0)
    /\ UNCHANGED <<preset, life, runs, late, stop_event, given, flag, cond, waiters, pc, self, remaining,
                   gotit, after, stopsOK>>

\* A running() that consumes the stop request it reads.
RunningClears(t, w) ==
    /\ CanCall(t, w)
    /\ last' = Returns("running", w, Bool(running(w)), StopDone(stop_event[w]), 0)
    /\ flag' = [flag EXCEPT ![stop_event[w]] = FALSE]
    /\ UNCHANGED <<preset, life, runs, late, stop_event, given, cond, waiters, pc, self, remaining,
                   gotit, after, stopsOK>>

\* running(): return not self.stopped()
Running(t, w) ==
    /\ CanCall(t, w)
    /\ last' = Returns("running", w, Bool(running(w)), StopDone(stop_event[w]), 0)
    /\ UNCHANGED <<preset, life, runs, late, stop_event, given, flag, cond, waiters, pc, self, remaining,
                   gotit, after, stopsOK>>

\* A stop() that clears an already set event instead of raising.
StopToggles(t, w) ==
    /\ CanCall(t, w)
    /\ IF is_set(stop_event[w])
       THEN /\ flag' = [flag EXCEPT ![stop_event[w]] = FALSE]
            /\ last' = Returns("stop", w, "None", StopDone(stop_event[w]), 0)
            /\ UNCHANGED <<pc, self, after>>
       ELSE /\ pc' = [pc EXCEPT ![t] = "stop_set"]
            /\ self' = [self EXCEPT ![t] = w]
            /\ after' = [after EXCEPT ![t] = StopDone(stop_event[w])]
            /\ last' = NoReturn
            /\ UNCHANGED flag
    /\ UNCHANGED <<preset, life, runs, late, stop_event, given, cond, waiters, remaining, gotit, stopsOK>>

\* A stop() without the is_set() check: it always goes on to set().
StopUnchecked(t, w) ==
    /\ CanCall(t, w)
    /\ pc' = [pc EXCEPT ![t] = "stop_set"]
    /\ self' = [self EXCEPT ![t] = w]
    /\ after' = [after EXCEPT ![t] = StopDone(stop_event[w])]
    /\ last' = NoReturn
    /\ UNCHANGED <<preset, life, runs, late, stop_event, given, flag, cond, waiters, remaining, gotit, stopsOK>>

\* A stop() that only accepts a worker whose thread is alive.
StopNeedsAlive(t, w) ==
    /\ CanCall(t, w)
    /\ life[w] = "running"
    /\ IF is_set(stop_event[w])
       THEN /\ last' = Returns("stop", w, "RuntimeError", StopDone(stop_event[w]), 0)
            /\ UNCHANGED <<pc, self, after>>
       ELSE /\ pc' = [pc EXCEPT ![t] = "stop_set"]
            /\ self' = [self EXCEPT ![t] = w]
            /\ after' = [after EXCEPT ![t] = StopDone(stop_event[w])]
            /\ last' = NoReturn
    /\ UNCHANGED <<preset, life, runs, late, stop_event, given, flag, cond, waiters, remaining, gotit, stopsOK>>

\* stop(): if self.stop_event.is_set(): raise RuntimeError(...)
Stop(t, w) ==
    /\ CanCall(t, w)
    /\ IF is_set(stop_event[w])
       THEN /\ last' = Returns("stop", w, "RuntimeError", StopDone(stop_event[w]), 0)
            /\ UNCHANGED <<pc, self, after>>
       ELSE /\ pc' = [pc EXCEPT ![t] = "stop_set"]
            /\ self' = [self EXCEPT ![t] = w]
            /\ after' = [after EXCEPT ![t] = StopDone(stop_event[w])]
            /\ last' = NoReturn
    /\ UNCHANGED <<preset, life, runs, late, stop_event, given, flag, cond, waiters, remaining, gotit, stopsOK>>

\* stop(): self.stop_event.set(), first half: with self._cond: self._flag = True
StopSet(t) ==
    /\ pc[t] = "stop_set"
    /\ cond[Ev(t)] = NoThread
    /\ cond' = [cond EXCEPT ![Ev(t)] = t]
    /\ flag' = [flag EXCEPT ![Ev(t)] = TRUE]
    /\ pc' = [pc EXCEPT ![t] = "stop_notify"]
    /\ last' = NoReturn
    /\ UNCHANGED <<preset, life, runs, late, stop_event, given, waiters, self, remaining, gotit, after, stopsOK>>

\* A set() that writes the flag and notifies nobody.
notify_none(e) == waiters

\* Condition.notify_all: release every waiter lock in _waiters and drop it.
notify_all(e) == [waiters EXCEPT ![e] = {}]

\* A stop() that sets the event first and raises afterwards.
StopNotifyRaises(t) ==
    /\ pc[t] = "stop_notify"
    /\ waiters' = notify_all(Ev(t))
    /\ cond' = [cond EXCEPT ![Ev(t)] = NoThread]
    /\ pc' = [pc EXCEPT ![t] = "idle"]
    /\ self' = [self EXCEPT ![t] = NoWorker]
    /\ after' = [after EXCEPT ![t] = FALSE]
    /\ last' = Returns("stop", self[t], "RuntimeError", after[t], 0)
    /\ UNCHANGED <<preset, life, runs, late, stop_event, given, flag, remaining, gotit, stopsOK>>

\* A stop() that also ends the worker's thread.
StopNotifyKills(t) ==
    /\ pc[t] = "stop_notify"
    /\ waiters' = notify_all(Ev(t))
    /\ cond' = [cond EXCEPT ![Ev(t)] = NoThread]
    /\ stopsOK' = [stopsOK EXCEPT ![Ev(t)] = IF @ < 2 THEN @ + 1 ELSE @]
    /\ pc' = [pc EXCEPT ![t] = "idle"]
    /\ self' = [self EXCEPT ![t] = NoWorker]
    /\ after' = [s \in Threads |->
                    /\ s # t
                    /\ after[s] \/ (pc[s] = "sleep_wait" /\ Ev(s) = Ev(t))]
    /\ last' = Returns("stop", self[t], "None", after[t], 0)
    /\ life' = [life EXCEPT ![self[t]] = IF @ = "running" THEN "terminated" ELSE @]
    /\ UNCHANGED <<preset, runs, late, stop_event, given, flag, remaining, gotit>>

\* stop(): set(), second half: self._cond.notify_all(), leave the with, return.
StopNotify(t) ==
    /\ pc[t] = "stop_notify"
    /\ waiters' = notify_all(Ev(t))
    /\ cond' = [cond EXCEPT ![Ev(t)] = NoThread]
    /\ stopsOK' = [stopsOK EXCEPT ![Ev(t)] = IF @ < 2 THEN @ + 1 ELSE @]
    /\ pc' = [pc EXCEPT ![t] = "idle"]
    /\ self' = [self EXCEPT ![t] = NoWorker]
    /\ after' = [s \in Threads |->
                    /\ s # t
                    /\ after[s] \/ (pc[s] = "sleep_wait" /\ Ev(s) = Ev(t))]
    /\ last' = Returns("stop", self[t], "None", after[t], 0)
    /\ UNCHANGED <<preset, life, runs, late, stop_event, given, flag, remaining, gotit>>

\* A sleep() that waits on the condition without looking at the flag first.
SleepUnchecked(t, w, i) ==
    /\ CanSleep(t, w)
    /\ cond[stop_event[w]] = NoThread
    /\ waiters' = [waiters EXCEPT ![stop_event[w]] = @ \cup {t}]
    /\ pc' = [pc EXCEPT ![t] = "sleep_wait"]
    /\ self' = [self EXCEPT ![t] = w]
    /\ remaining' = [remaining EXCEPT ![t] = i]
    /\ after' = [after EXCEPT ![t] = StopDone(stop_event[w])]
    /\ last' = NoReturn
    /\ UNCHANGED <<preset, life, runs, late, stop_event, given, flag, cond, gotit, stopsOK>>

\* sleep(): self.stop_event.wait(interval), under the lock: signaled = flag;
\* when set, return True; otherwise Condition.wait appends a locked waiter,
\* releases the lock and blocks in waiter.acquire for up to interval.
Sleep(t, w, i) ==
    /\ CanSleep(t, w)
    /\ cond[stop_event[w]] = NoThread
    /\ IF flag[stop_event[w]]
       THEN /\ last' = Returns("sleep", w, "True", StopDone(stop_event[w]), i)
            /\ pc' = [pc EXCEPT ![t] = Home(t)]
            /\ UNCHANGED <<waiters, self, remaining, after>>
       ELSE /\ waiters' = [waiters EXCEPT ![stop_event[w]] = @ \cup {t}]
            /\ pc' = [pc EXCEPT ![t] = "sleep_wait"]
            /\ self' = [self EXCEPT ![t] = w]
            /\ remaining' = [remaining EXCEPT ![t] = i]
            /\ after' = [after EXCEPT ![t] = StopDone(stop_event[w])]
            /\ last' = NoReturn
    /\ UNCHANGED <<preset, life, runs, late, stop_event, given, flag, cond, gotit, stopsOK>>

\* waiter.acquire succeeds: a notify released the waiter lock.
SleepWake(t) ==
    /\ pc[t] = "sleep_wait"
    /\ t \notin waiters[Ev(t)]
    /\ gotit' = [gotit EXCEPT ![t] = TRUE]
    /\ pc' = [pc EXCEPT ![t] = "sleep_exit"]
    /\ last' = NoReturn
    /\ UNCHANGED <<preset, life, runs, late, stop_event, given, flag, cond, waiters, self, remaining, after, stopsOK>>

\* A wait that gives up before its timeout has run out.
SleepTimeoutEarly(t) ==
    /\ pc[t] = "sleep_wait"
    /\ t \in waiters[Ev(t)]
    /\ gotit' = [gotit EXCEPT ![t] = FALSE]
    /\ pc' = [pc EXCEPT ![t] = "sleep_exit"]
    /\ last' = NoReturn
    /\ UNCHANGED <<preset, life, runs, late, stop_event, given, flag, cond, waiters, self, remaining, after, stopsOK>>

\* A wait that passes no timeout to waiter.acquire: only a notify ends it.
SleepTimeoutNever(t) ==
    /\ pc[t] = "sleep_wait"
    /\ t \in waiters[Ev(t)]
    /\ remaining[t] < 0
    /\ gotit' = [gotit EXCEPT ![t] = FALSE]
    /\ pc' = [pc EXCEPT ![t] = "sleep_exit"]
    /\ last' = NoReturn
    /\ UNCHANGED <<preset, life, runs, late, stop_event, given, flag, cond, waiters, self, remaining, after, stopsOK>>

\* waiter.acquire gives up: the timeout ran out (at once for a timeout of 0,
\* which is waiter.acquire(False)) with the waiter lock still held.
SleepTimeout(t) ==
    /\ pc[t] = "sleep_wait"
    /\ t \in waiters[Ev(t)]
    /\ remaining[t] = 0
    /\ gotit' = [gotit EXCEPT ![t] = FALSE]
    /\ pc' = [pc EXCEPT ![t] = "sleep_exit"]
    /\ last' = NoReturn
    /\ UNCHANGED <<preset, life, runs, late, stop_event, given, flag, cond, waiters, self, remaining, after, stopsOK>>

\* A sleep() that returns the flag's negation: True for a full sleep.
SleepReturnNegated(t) ==
    /\ pc[t] = "sleep_exit"
    /\ cond[Ev(t)] = NoThread
    /\ waiters' = [waiters EXCEPT ![Ev(t)] = @ \ {t}]
    /\ last' = Returns("sleep", self[t], Bool(~gotit[t]), after[t], remaining[t])
    /\ Idle(t)
    /\ gotit' = [gotit EXCEPT ![t] = FALSE]
    /\ remaining' = [remaining EXCEPT ![t] = 0]
    /\ UNCHANGED <<preset, life, runs, late, stop_event, given, flag, cond, stopsOK>>

\* Condition.wait's finally: re-acquire the lock and, if not gotit, remove the
\* waiter; Event.wait returns signaled = gotit; sleep() returns bool of it.
SleepReturn(t) ==
    /\ pc[t] = "sleep_exit"
    /\ cond[Ev(t)] = NoThread
    /\ waiters' = [waiters EXCEPT ![Ev(t)] = @ \ {t}]
    /\ last' = Returns("sleep", self[t], Bool(gotit[t]), after[t], remaining[t])
    /\ Idle(t)
    /\ gotit' = [gotit EXCEPT ![t] = FALSE]
    /\ remaining' = [remaining EXCEPT ![t] = 0]
    /\ UNCHANGED <<preset, life, runs, late, stop_event, given, flag, cond, stopsOK>>

\* One unit of time passes for every thread blocked in waiter.acquire.
Tick ==
    /\ \E t \in Threads : pc[t] = "sleep_wait" /\ remaining[t] > 0
    /\ remaining' = [t \in Threads |->
                       IF pc[t] = "sleep_wait" /\ remaining[t] > 0
                       THEN remaining[t] - 1 ELSE remaining[t]]
    /\ last' = NoReturn
    /\ UNCHANGED <<preset, life, runs, late, stop_event, given, flag, cond, waiters, pc, self, gotit, after, stopsOK>>

\* Thread.start() of worker w: thread t becomes the worker's thread and
\* executes its run() body.  A cooperative body (class docstring) tests
\* running() and waits with sleep(interval), starting with either; any other
\* body ("body_busy") calls none of the worker's methods.
Start(t, w, first) ==
    /\ pc[t] = "idle"
    /\ Constructed(w)
    /\ life[w] = "created"
    /\ life' = [life EXCEPT ![w] = "running"]
    /\ runs' = [runs EXCEPT ![t] = w]
    /\ late' = [late EXCEPT ![t] = StopDone(stop_event[w])]
    /\ pc' = [pc EXCEPT ![t] = first]
    /\ last' = NoReturn
    /\ UNCHANGED <<stop_event, given, flag, cond, waiters, self, remaining, gotit,
                   after, stopsOK, preset>>

\* run() returns: the worker's thread is over.
Exit(t) ==
    /\ life' = [life EXCEPT ![runs[t]] = "terminated"]
    /\ runs' = [runs EXCEPT ![t] = NoWorker]
    /\ late' = [late EXCEPT ![t] = FALSE]
    /\ pc' = [pc EXCEPT ![t] = "idle"]

\* The body's loop test, while self.running(): go on to sleep(), or leave.
BodyCheck(t) ==
    /\ pc[t] = "body_check"
    /\ last' = Returns("running", runs[t], Bool(running(runs[t])),
                       StopDone(stop_event[runs[t]]), 0)
    /\ IF running(runs[t])
       THEN /\ pc' = [pc EXCEPT ![t] = "body_sleep"]
            /\ UNCHANGED <<life, runs, late>>
       ELSE Exit(t)
    /\ UNCHANGED <<stop_event, given, flag, cond, waiters, self, remaining, gotit,
                   after, stopsOK, preset>>

\* A body that calls none of the worker's methods ends when its own work does.
BodyExit(t) ==
    /\ pc[t] = "body_busy"
    /\ Exit(t)
    /\ last' = NoReturn
    /\ UNCHANGED <<stop_event, given, flag, cond, waiters, self, remaining, gotit,
                   after, stopsOK, preset>>

\* The workers' methods called from outside, no worker started.
Next ==
    \/ \E w \in Workers, arg \in Events \cup {NoEvent} : Construct(w, arg)
    \/ ExternalSet
    \/ \E t \in Threads, w \in Workers : Stopped(t, w)
    \/ \E t \in Threads, w \in Workers : Running(t, w)
    \/ \E t \in Threads, w \in Workers : Stop(t, w)
    \/ \E t \in Threads : StopSet(t)
    \/ \E t \in Threads : StopNotify(t)
    \/ \E t \in Threads, w \in Workers, i \in Intervals : Sleep(t, w, i)
    \/ \E t \in Threads : SleepWake(t)
    \/ \E t \in Threads : SleepTimeout(t)
    \/ \E t \in Threads : SleepReturn(t)
    \/ Tick

\* The same, with workers started and their bodies running.
BodyNext ==
    \/ \E w \in Workers, arg \in Events \cup {NoEvent} : Construct(w, arg)
    \/ ExternalSet
    \/ \E t \in Threads, w \in Workers : Stop(t, w)
    \/ \E t \in Threads : StopSet(t)
    \/ \E t \in Threads : StopNotify(t)
    \/ \E t \in Threads, w \in Workers,
          first \in {"body_check", "body_sleep", "body_busy"} : Start(t, w, first)
    \/ \E t \in Threads : BodyCheck(t)
    \/ \E t \in Threads, i \in Intervals : pc[t] = "body_sleep" /\ Sleep(t, runs[t], i)
    \/ \E t \in Threads : SleepWake(t)
    \/ \E t \in Threads : SleepTimeout(t)
    \/ \E t \in Threads : SleepReturn(t)
    \/ Tick
    \/ \E t \in Threads : BodyExit(t)

Spec == Init /\ [][Next]_vars

BodySpec == Init /\ [][BodyNext]_vars

\* Scheduling: a thread inside a call that can take its next step eventually
\* takes it (the interpreter switches threads, a free lock is acquired), and
\* time passes for the threads blocked in a timed wait.
Fair(t) ==
    /\ WF_vars(StopSet(t))
    /\ WF_vars(StopNotify(t))
    /\ WF_vars(SleepWake(t))
    /\ WF_vars(SleepTimeout(t))
    /\ WF_vars(SleepReturn(t))

LiveSpec == Spec /\ WF_vars(Tick) /\ \A t \in Threads : Fair(t)

\* A cooperative body goes on to its next call; a body that uses none of the
\* helpers may run for ever.
FairBody(t) ==
    /\ Fair(t)
    /\ WF_vars(BodyCheck(t))
    /\ WF_vars(\E i \in Intervals : pc[t] = "body_sleep" /\ Sleep(t, runs[t], i))

LiveBodySpec == BodySpec /\ WF_vars(Tick) /\ \A t \in Threads : FairBody(t)

(***************************************************************************)
(* The claims.                                                             *)
(***************************************************************************)
LastEvent == stop_event[last.w]
InSet(e) == \E s \in Threads : pc[s] = "stop_notify" /\ Ev(s) = e

\* C1: of the stop() calls made concurrently on one stop event, exactly one
\* returns normally and the others raise RuntimeError: no two stop() calls on
\* the same event both succeed.
C1_OneStopSucceeds == \A e \in Events : stopsOK[e] <= 1

\* C2: the stop flag is monotonic: once stopped() is true of a worker it is
\* true in every later state, whatever calls are made.
C2_FlagMonotonic ==
    [][\A w \in Workers : (Constructed(w) /\ stopped(w)) => stopped(w)']_vars

\* stopped() was true, calls went on, and a later stopped() still answers True.
C2_Witness ==
    /\ last.op = "stopped" /\ last.after /\ last.ret = "True"
    /\ \E t \in Threads : pc[t] = "sleep_exit"

\* C3: a stop() that starts after an earlier stop() on the same event has
\* returned normally raises RuntimeError and leaves the flag true.
C3_SecondStopRaises ==
    (last.op = "stop" /\ last.after) =>
        (last.ret = "RuntimeError" /\ stopped(last.w))

\* The second of two stop() calls in a row has raised.
C3_Witness ==
    /\ last.op = "stop" /\ last.after /\ last.ret = "RuntimeError"
    /\ stopsOK[LastEvent] = 1

\* C4: no missed wakeup: a thread blocked in sleep() whose event's flag is set
\* has been notified, or the set() that wrote the flag is about to notify it
\* (it still holds the lock); so a sleep() that checks the flag after it was set
\* never blocks, and every thread blocked when stop() sets the flag is woken.
C4_NoMissedWakeup ==
    \A t \in Threads :
        (pc[t] = "sleep_wait" /\ flag[Ev(t)] /\ t \in waiters[Ev(t)]) => InSet(Ev(t))

\* A thread blocked in sleep() with time left has been notified by a stop().
C4_Witness ==
    \E t \in Threads :
        /\ pc[t] = "sleep_wait" /\ flag[Ev(t)] /\ t \notin waiters[Ev(t)]
        /\ remaining[t] > 0 /\ ~InSet(Ev(t))

\* C5 as stated: sleep() returns True only with the flag set at the moment of
\* return, and False only with the flag still unset at the moment of return.
C5_ReturnTellsFlag ==
    last.op = "sleep" =>
        /\ last.ret = "True" => flag[LastEvent]
        /\ last.ret = "False" => ~flag[LastEvent]

\* C5 as amended: sleep() returns True only with the flag set at the moment of
\* return; it returns False only when its wait timed out (its whole interval
\* has passed and no stop() had notified it by then), and the flag may by then
\* have been set by a stop() that ran between the timeout and the return.
C5_ReturnTellsWake ==
    last.op = "sleep" =>
        /\ last.ret = "True" => flag[LastEvent]
        /\ last.ret = "False" => last.left = 0

\* A sleep() has returned False although a stop() set the flag before it returned.
C5_Witness == last.op = "sleep" /\ last.ret = "False" /\ flag[LastEvent] /\ last.left = 0

\* C6: while the flag has never been set, a sleep() does not return before its
\* timeout has run out, and returns False when it has.
C6_NoEarlyReturn ==
    (last.op = "sleep" /\ ~flag[LastEvent]) =>
        (last.ret = "False" /\ last.left = 0)

\* A sleep() has timed out on an event nobody has tried to stop.
C6_Witness ==
    /\ last.op = "sleep" /\ last.ret = "False" /\ ~flag[LastEvent]
    /\ \A t \in Threads : pc[t] \notin {"stop_set", "stop_notify"}

SameInjected(v, w) ==
    /\ v # w /\ Constructed(v) /\ Constructed(w)
    /\ given[v] # NoEvent /\ given[v] = given[w]

\* C8: two workers constructed with the same injected event share the
\* cancellation: once a stop() on either has returned normally, stopped() is
\* true and running() false on both, and a later stop() on either raises.
C8_SharedEvent ==
    \A v, w \in Workers :
        (SameInjected(v, w) /\ StopDone(stop_event[v])) =>
            /\ stopped(v) /\ stopped(w) /\ ~running(v) /\ ~running(w)
            /\ (last.op = "stop" /\ last.w = w /\ last.after) => last.ret = "RuntimeError"

\* After a stop() on one of two workers sharing an injected event, a stop() on
\* the other has raised.
C8_Witness ==
    \E v, w \in Workers :
        /\ SameInjected(v, w) /\ StopDone(stop_event[v])
        /\ last.op = "stop" /\ last.w = w /\ last.after /\ last.ret = "RuntimeError"

Private(w) == Constructed(w) /\ given[w] = NoEvent
StopStep(t) == pc[t] \in {"stop_set", "stop_notify"} /\ pc'[t] # pc[t]

\* C9: two workers constructed without a stop_event have distinct events, and a
\* stop() on one changes neither the other's flag nor its waiters: the other's
\* stopped() stays as it was and its blocked sleep() is not woken.
C9_PrivateEvents ==
    [][\A v, w \in Workers :
          /\ (v # w /\ Private(v)' /\ Private(w)') => stop_event'[v] # stop_event'[w]
          /\ (v # w /\ Private(v) /\ Private(w)
              /\ \E t \in Threads : self[t] = v /\ StopStep(t)) =>
                 /\ flag'[stop_event[w]] = flag[stop_event[w]]
                 /\ waiters'[stop_event[w]] = waiters[stop_event[w]]]_vars

\* One private worker has been stopped; a thread is still blocked in sleep() on
\* the other, whose flag is unset.
C9_Witness ==
    \E v, w \in Workers :
        /\ v # w /\ Private(v) /\ Private(w)
        /\ StopDone(stop_event[v]) /\ ~stopped(w)
        /\ \E t \in Threads : pc[t] = "sleep_wait" /\ self[t] = w /\ t \in waiters[Ev(t)]

StopBegun(e) ==
    \/ StopDone(e)
    \/ \E t \in Threads : pc[t] \in {"stop_set", "stop_notify"} /\ Ev(t) = e

C11_RunningNotStopped ==
    /\ \A w \in Workers : Constructed(w) =>
          /\ stopped(w) = flag[stop_event[w]]
          /\ running(w) = ~flag[stop_event[w]]
    /\ last.op = "stopped" => last.ret = Bool(flag[LastEvent])
    /\ last.op = "running" => last.ret = Bool(~flag[LastEvent])

\* running() has answered False on a worker whose flag is set.
C11_Witness == last.op = "running" /\ last.ret = "False" /\ flag[LastEvent]

InSleep(t) == pc[t] \in {"sleep_wait", "sleep_exit"}

\* C12: under fair scheduling every sleep(interval) that blocks eventually
\* returns, by wake-up or by timeout: no thread stays in the wait forever.
C12_SleepReturns == \A t \in Threads : InSleep(t) ~> ~InSleep(t)

C12_Witness ==
    /\ last.op = "sleep"
    /\ \E t \in Threads : pc[t] = "sleep_wait" /\ Ev(t) = LastEvent

Held(e) == \E w \in Workers : stop_event[w] = e
ReadStep(t) ==
    \/ pc' = pc /\ last'.op \in {"stopped", "running", "sleep"}
    \/ pc'[t] # pc[t] /\ (pc[t] = "sleep_wait" \/ pc'[t] = "sleep_wait")
    \/ pc'[t] # pc[t] /\ pc[t] = "sleep_exit"

\* C13: a step of running(), stopped() or sleep() changes no flag and takes no
\* other thread out of an event's waiters; an idle thread's running() and
\* stopped() can always return at once, whoever holds the event's lock; and a
\* worker's flag changes only in the set step of a stop().
C13_ReadOnly ==
    [][/\ \A t \in Threads : ReadStep(t) =>
             /\ flag' = flag
             /\ \A e \in Events : waiters[e] \ waiters'[e] \subseteq {t}
       /\ \A t \in Threads, w \in Workers : CanCall(t, w) =>
             (ENABLED Stopped(t, w)) /\ (ENABLED Running(t, w))
       /\ \A e \in Events : Held(e) /\ flag'[e] # flag[e] =>
             \E t \in Threads :
                 pc[t] = "stop_set" /\ pc'[t] = "stop_notify" /\ Ev(t) = e]_vars

C13_Witness ==
    /\ last.op \in {"stopped", "running"}
    /\ \E t \in Threads :
          /\ pc[t] = "sleep_wait" /\ Ev(t) = LastEvent /\ t \in waiters[Ev(t)]

Cooperative(t) == runs[t] # NoWorker /\ pc[t] # "body_busy"
BodyEvent(t) == stop_event[runs[t]]

\* What is left of a cooperative body once the flag is set: the sleep() it is
\* in or about to call, then one running() test, then nothing.
Left(p) ==
    CASE p = "body_sleep" -> 4
      [] p = "sleep_wait" -> 3
      [] p = "sleep_exit" -> 2
      [] p = "body_check" -> 1
      [] OTHER -> 0

\* C14: once the flag of its event is set, a body `while running(): sleep(i)`
\* only finishes the sleep() it is in or about to call, tests running() once
\* and exits; under fair scheduling it does exit, whatever the interval.
C14_BodyTerminates ==
    /\ [][\A t \in Threads :
             Cooperative(t) /\ flag[BodyEvent(t)] /\ pc'[t] # pc[t] =>
                 /\ Left(pc'[t]) < Left(pc[t])
                 /\ pc[t] = "body_sleep" => pc'[t] = "body_check"
                 /\ pc[t] = "body_check" => runs'[t] = NoWorker]_vars
    /\ \A t \in Threads :
          (Cooperative(t) /\ flag[BodyEvent(t)]) ~> (runs[t] = NoWorker)

C14_Witness ==
    /\ last.op = "running" /\ last.ret = "False" /\ last.after
    /\ life[last.w] = "terminated"
    /\ stopsOK[LastEvent] = 1

\* A step of a stop() call by thread t: its is_set test, its set, its return.
StopAct(t) ==
    \/ pc' = pc /\ last'.op = "stop"
    \/ pc[t] = "idle" /\ pc'[t] = "stop_set"
    \/ StopStep(t)

\* C15: stop() does not end the worker's thread.  A step of a stop() changes
\* no worker's lifecycle state and moves no other thread (it changes the flag,
\* the lock and the waiters); a worker's lifecycle changes only when its own
\* thread starts or leaves run(); and a body that calls none of the helpers is
\* running as long as it has not left run() by itself.
C15_StopDoesNotKill ==
    /\ [](\A t \in Threads : pc[t] = "body_busy" => life[runs[t]] = "running")
    /\ [][/\ \A t \in Threads : StopAct(t) =>
                /\ life' = life /\ runs' = runs
                /\ stop_event' = stop_event /\ remaining' = remaining /\ gotit' = gotit
                /\ \A s \in Threads \ {t} : pc'[s] = pc[s]
          /\ \A w \in Workers : life'[w] # life[w] =>
                \E t \in Threads :
                    /\ pc'[t] # pc[t] /\ w \in {runs[t], runs'[t]}
                    /\ life'[w] = "terminated" =>
                          pc[t] \in {"body_busy", "body_check"} /\ pc'[t] = "idle"]_vars

C15_Witness ==
    /\ last.op = "stop" /\ last.ret = "None"
    /\ life[last.w] = "running"
    /\ \E t \in Threads : pc[t] = "body_busy" /\ runs[t] = last.w

\* C16: stop() does not look at the worker's lifecycle.  In every lifecycle
\* state a stop() on a worker whose flag is unset passes its test and goes on
\* to set the flag, it raises only when the flag is set, and a stop() that has
\* set the flag returns normally.  A body started after a stop() on its event
\* has returned normally leaves at its first running() test, which returns
\* False, and its first sleep() returns True without entering the wait.
C16_StopAnyLifecycle ==
    [][/\ \A t \in Threads, w \in Workers : CanCall(t, w) =>
             /\ ENABLED Stop(t, w)
             /\ ~flag[stop_event[w]] => ENABLED (Stop(t, w) /\ pc'[t] = "stop_set")
       /\ pc' = pc /\ last'.op = "stop" =>
             last'.ret = "RuntimeError" /\ flag[stop_event[last'.w]]
       /\ \A t \in Threads : pc[t] = "stop_notify" /\ pc'[t] # pc[t] =>
             last'.op = "stop" /\ last'.ret = "None"
       /\ \A t \in Threads : late[t] /\ Cooperative(t) /\ pc'[t] # pc[t] =>
             /\ pc[t] = "body_check" =>
                   /\ runs'[t] = NoWorker
                   /\ last'.op = "running" /\ last'.ret = "False"
             /\ pc[t] = "body_sleep" =>
                   /\ pc'[t] = "body_check"
                   /\ last'.op = "sleep" /\ last'.ret = "True"
             /\ pc[t] \in {"body_check", "body_sleep"}]_vars

C16_Witness ==
    /\ last.op = "stop" /\ last.ret = "None" /\ life[last.w] = "terminated"
    /\ \E t \in Threads : late[t] /\ pc[t] = "body_check"

\* Worker w holds the external event, which its maker had set beforehand.
PresetWorker(w) == Constructed(w) /\ preset /\ stop_event[w] = ExternalEvent

\* C17: a worker constructed with an event that was set beforehand is stopped
\* from construction on: stopped() is and returns True, running() False, no
\* sleep() on it ever enters the wait and each returns True, no stop() on it
\* ever gets past its test and each raises, and the flag stays set.
C17_PresetStopped ==
    /\ \A w \in Workers : PresetWorker(w) =>
          /\ stopped(w) /\ ~running(w) /\ flag[stop_event[w]]
          /\ stopsOK[stop_event[w]] = 0 /\ cond[stop_event[w]] = NoThread
          /\ \A t \in Threads : self[t] = w => pc[t] = "idle"
    /\ last.op # "none" /\ PresetWorker(last.w) =>
          /\ last.op = "stopped" => last.ret = "True"
          /\ last.op = "running" => last.ret = "False"
          /\ last.op = "sleep" => last.ret = "True"
          /\ last.op = "stop" => last.ret = "RuntimeError"

C17_Witness ==
    /\ last.op = "stop" /\ last.ret = "RuntimeError" /\ PresetWorker(last.w)
    /\ given[last.w] = ExternalEvent /\ flag[ExternalEvent]

\* Worker w made its own event and no other worker was given it.
Owned(w) == Private(w) /\ \A v \in Workers \ {w} : stop_event[v] # stop_event[w]

\* C18: a stop() that raises is over at its is_set() test: its step changes
\* no flag, no lock and no waiters, and no stop() that went on to the set
\* raises.  Whenever the flag of a worker's own, unshared event is set, a
\* stop() on that worker has passed its test and executed the set: it has
\* returned normally or is between the flag write and its return.
C18_RaiseWritesNothing ==
    /\ [](\A w \in Workers : Owned(w) /\ flag[stop_event[w]] =>
             \/ StopDone(stop_event[w])
             \/ \E t \in Threads : pc[t] = "stop_notify" /\ self[t] = w)
    /\ [][/\ last'.op = "stop" /\ last'.ret = "RuntimeError" =>
                /\ pc' = pc /\ flag' = flag /\ cond' = cond /\ waiters' = waiters
                /\ stopsOK' = stopsOK
          /\ \A t \in Threads : StopStep(t) => last'.ret # "RuntimeError"]_vars

C18_Witness ==
    /\ last.op = "stop" /\ last.ret = "RuntimeError" /\ Owned(last.w)
    /\ ~StopDone(LastEvent)
    /\ \E t \in Threads : pc[t] = "stop_notify" /\ self[t] = last.w

====
